---- MODULE Spec2Model ----
(***************************************************************************)
(* Authentication and session-token subsystem of the contacts API:         *)
(* src/src/services/auth.py (class Auth), src/src/routes/auth.py (the      *)
(* /auth routes), src/src/routes/users.py and the User table of            *)
(* src/src/entity/models.py.                                               *)
(*                                                                         *)
(* Python values are modelled as follows.  None is the empty tuple.  A     *)
(* row of the users table is a function over the mapped columns of User.   *)
(* A JWT is the pair <<payload, signing key>>; the payload is a record     *)
(* whose keys are the claims the code puts into it.  Time is in whole      *)
(* seconds, as in the numeric iat/exp claims of a JWT.                     *)
(***************************************************************************)
EXTENDS Integers, Sequences, FiniteSets, TLC

VARIABLES
    users,      \* the rows of table "users" (a set of rows)
    cache,      \* redis: key (email) -> [value, expires] or None
    tasks,      \* background tasks scheduled and not yet run
    now,        \* the clock, in seconds
    last,       \* the last request handled: [op, arg, res, at, before]
    lastIssued, \* history: email -> refresh token returned by the most recent
                \* successful login or refresh (None if none)
    confirmAsked, \* history: the emails for which confirmed_email was called
                \* with a valid email-verification token of an existing user
    codes,      \* redis: key "reset_code:<email>" -> [value, expires] or None
    issued,     \* history: email -> the reset code most recently issued for it,
                \* [code, at, n] with n the number of codes issued so far
    redeemed,   \* history: email -> the number of password resets that succeeded
                \* since the most recent code was issued
    seen,       \* history: what the last get_current_user call found in the cache
    loaded,     \* history: email -> [row, at], the row get_current_user last read
                \* from the users table for that email and when
    calls,      \* the reset_password requests in flight, one per worker
    redisUp,    \* whether the redis server answers
    mailbox,    \* the emails the mail server has accepted for delivery
    contacts,   \* the rows of table "contacts" (a set of rows)
    signups     \* the signup requests in flight, one per worker

resetVars == <<codes, issued, redeemed>>
guardHist == <<seen, loaded>>
otherVars == <<redisUp, mailbox, contacts, signups>>

vars == <<users, cache, tasks, now, last, lastIssued, confirmAsked,
          codes, issued, redeemed, seen, loaded, calls,
          redisUp, mailbox, contacts, signups>>

None == <<>>

(***************************************************************************)
(* Bounds of the model.                                                    *)
(***************************************************************************)
MaxTicks == 1
MaxElapse == 2
MaxIssues == 2
MaxContacts == 2

Emails == {"a@x.com", "b@x.com"}
Passwords == {"pw1", "pw2"}
SignupPasswords == {"pw1"}
UserNames == {"alice"}
BaseUrl == "http://host/"

(***************************************************************************)
(* Program constants.                                                      *)
(***************************************************************************)
SECRET_KEY == "123456789"
OTHER_KEY == "not-the-secret"
AccessTTL == 900
RefreshTTL == 604800
EmailTTL == 86400
CacheTTL == 3600
ResetTTL == 3600

\* The clock advances in steps that take it past one access-token lifetime.
ClockStep == AccessTTL + 1

RECURSIVE TimesWithin(_)
TimesWithin(n) ==
    IF n = 0 THEN {0}
    ELSE LET P == TimesWithin(n - 1) IN P \cup {t + ClockStep : t \in P}

Times == TimesWithin(MaxTicks)

\* Where an expiry after an hour matters the clock advances by half the
\* lifetime of a cache entry.
ElapseStep == CacheTTL \div 2
ElapseTimes == {k * ElapseStep : k \in 0..MaxElapse}

(***************************************************************************)
(* Results of calls.  A call returns a value or raises; an HTTPException   *)
(* carries a status and a detail, any other exception reaches the client   *)
(* as 500.  A response body is the value the handler returns, before the   *)
(* route's response_model serialises it.                                   *)
(***************************************************************************)
Return(v) == [raised |-> "", value |-> v]
Raise(kind, status, detail) == [raised |-> kind, status |-> status, detail |-> detail]

Response(r) ==
    IF r.raised = "" THEN [status |-> 200, body |-> r.value, raised |-> ""]
    ELSE IF r.raised = "HTTPException"
         THEN [status |-> r.status, body |-> [detail |-> r.detail], raised |-> r.raised]
         ELSE [status |-> 500, body |-> [detail |-> "Internal Server Error"],
               raised |-> r.raised]

(***************************************************************************)
(* entity/models.py: class User.  The mapped columns; created_at and       *)
(* updated_at are server-side timestamps no handler reads.                 *)
(***************************************************************************)
UserColumns == {"id", "user_name", "email", "password", "avatar", "refresh_token"}

\* User(user_name=..., email=..., password=..., avatar=...) after the insert:
\* the columns not given are NULL, id is the next integer key.
NewUser(id, name, email, hashed, avatar) ==
    [c \in UserColumns |->
        CASE c = "id" -> id
          [] c = "user_name" -> name
          [] c = "email" -> email
          [] c = "password" -> hashed
          [] c = "avatar" -> avatar
          [] OTHER -> None]

\* Reading an attribute of a loaded instance: a column's value, or
\* AttributeError when the class maps no such column.
HasAttr(u, a) == a \in DOMAIN u

\* select(User).filter(User.email == email) ... .scalars().first()
SelectUser(rows, email) ==
    IF \E u \in rows : u.email = email
    THEN CHOOSE u \in rows : u.email = email
    ELSE None

\* user.<col> = v; session.commit(): an UPDATE of the mapped columns of the row.
\* An attribute that is no mapped column is not written.
UpdateUser(rows, u, col, v) ==
    IF col \in UserColumns
    THEN (rows \ {u}) \cup {[u EXCEPT ![col] = v]}
    ELSE rows

(***************************************************************************)
(* services/auth.py: passwords.                                            *)
(***************************************************************************)
Salts == {"salt1"}

get_password_hash(password, salt) == <<"bcrypt", salt, password>>

verify_password(plain, hashed) ==
    /\ Len(hashed) = 3
    /\ hashed[1] = "bcrypt"
    /\ hashed[3] = plain

(***************************************************************************)
(* jose.jwt as the code uses it.                                           *)
(***************************************************************************)
JwtEncode(payload, key) == <<payload, key>>

\* Variant of JwtDecode that does not look at exp (used to test C22).
JwtDecodeAnyAge(token, key, t) ==
    IF token[2] # key THEN Raise("JWTError", 0, "Signature verification failed")
    ELSE Return(token[1])

\* jwt.decode(token, key, algorithms): JWTError on a bad signature or when
\* exp is in the past (exp < now), the payload otherwise.
JwtDecode(token, key, t) ==
    IF token[2] # key THEN Raise("JWTError", 0, "Signature verification failed")
    ELSE IF "exp" \in DOMAIN token[1] /\ token[1].exp < t
         THEN Raise("JWTError", 0, "Signature has expired")
         ELSE Return(token[1])

\* dict.update
DictUpdate(d, u) ==
    [k \in DOMAIN d \cup DOMAIN u |-> IF k \in DOMAIN u THEN u[k] ELSE d[k]]

\* dict.get(key): None when the key is absent
DictGet(d, k) == IF k \in DOMAIN d THEN d[k] ELSE None

create_access_token(data, t) ==
    JwtEncode(DictUpdate(data, [iat |-> t, exp |-> t + AccessTTL, scope |-> "access_token"]),
              SECRET_KEY)

refresh_access_token(data, t) ==
    JwtEncode(DictUpdate(data, [iat |-> t, exp |-> t + RefreshTTL, scope |-> "refresh_token"]),
              SECRET_KEY)

create_email_token(data, t) ==
    JwtEncode(DictUpdate(data, [iat |-> t, exp |-> t + EmailTTL]), SECRET_KEY)

decode_refresh_token(token, t) ==
    LET d == JwtDecode(token, SECRET_KEY, t) IN
    IF d.raised # "" THEN Raise("HTTPException", 401, "Could not validate credentials")
    ELSE IF "scope" \notin DOMAIN d.value THEN Raise("KeyError", 0, "scope")
    ELSE IF d.value.scope = "refresh_token" THEN Return(d.value.sub)
    ELSE Raise("HTTPException", 401, "Invalid scope for token")

get_email_from_token(token, t) ==
    LET d == JwtDecode(token, SECRET_KEY, t) IN
    IF d.raised # ""
    THEN Raise("HTTPException", 422, "Invalid token for email verification")
    ELSE IF "sub" \notin DOMAIN d.value THEN Raise("KeyError", 0, "sub")
    ELSE Return(d.value.sub)

(***************************************************************************)
(* redis and pickle as the code uses them.                                 *)
(***************************************************************************)
PickleDumps(u) == <<"pickle", u>>
PickleLoads(b) == b[2]

\* Variant of RedisGet that returns a value whatever its age (used to test C19).
RedisGetAnyAge(store, key, t) ==
    IF store[key] # None THEN store[key].value ELSE None

\* redis GET: the value of a key that is set and has not expired
RedisGet(store, key, t) ==
    IF store[key] # None /\ t < store[key].expires THEN store[key].value ELSE None

\* redis SET key value EX seconds
RedisSet(store, key, value, ex, t) ==
    [store EXCEPT ![key] = [value |-> value, expires |-> t + ex]]

\* Auth.get_current_user: the result and the cache it leaves.
get_current_user(token, rows, store, t) ==
    LET credentials_exception ==
            Raise("HTTPException", 401, "Could not validate credentials")
        d == JwtDecode(token, SECRET_KEY, t)
    IN  IF d.raised # "" THEN [result |-> credentials_exception, cache |-> store]
        ELSE IF "sub" \notin DOMAIN d.value
             THEN [result |-> credentials_exception, cache |-> store]
             ELSE LET email == d.value.sub
                      cached_user == RedisGet(store, email, t) IN
                  IF cached_user # None
                  THEN [result |-> Return(PickleLoads(cached_user)), cache |-> store]
                  ELSE LET user == SelectUser(rows, email) IN
                       IF user # None
                       THEN [result |-> Return(user),
                             cache |-> RedisSet(store, email, PickleDumps(user), CacheTTL, t)]
                       ELSE [result |-> credentials_exception, cache |-> store]

(***************************************************************************)
(* The tokens a client can present at time t: every token the Auth         *)
(* service signs for a subject at a time up to t, and one token signed     *)
(* with another key.                                                       *)
(***************************************************************************)
ForgedToken ==
    JwtEncode([sub |-> "a@x.com", iat |-> 0, exp |-> AccessTTL, scope |-> "access_token"],
              OTHER_KEY)

SignedTokens(t) ==
    UNION {{create_access_token([sub |-> e], i),
            refresh_access_token([sub |-> e], i),
            create_email_token([sub |-> e], i)} : e \in Emails, i \in {x \in Times : x <= t}}

Tokens(t) == SignedTokens(t) \cup {ForgedToken}

Subject(token) == DictGet(token[1], "sub")
Unexpired(token, t) == ~(token[1].exp < t)
ValidAt(token, t) == token[2] = SECRET_KEY /\ Unexpired(token, t)

(***************************************************************************)
(* Initial state: empty table, empty cache, no task scheduled.             *)
(***************************************************************************)
Workers == {"w1", "w2"}
IdleCall == [pc |-> "idle", email |-> "", reset_code |-> "", new_password |-> "",
             salt |-> "", serial |-> 0, user |-> None, status |-> 0]

IdleSignup == [pc |-> "idle", name |-> "", email |-> "", hashed |-> None, avatar |-> None,
               new_user |-> None, status |-> 0, raised |-> ""]

NoRequest == [op |-> "none", arg |-> None, res |-> None, at |-> 0, before |-> {}]

Init ==
    /\ users = {}
    /\ cache = [e \in Emails |-> None]
    /\ tasks = {}
    /\ now = 0
    /\ last = NoRequest
    /\ lastIssued = [e \in Emails |-> None]
    /\ confirmAsked = {}
    /\ codes = [e \in Emails |-> None]
    /\ issued = [e \in Emails |-> None]
    /\ redeemed = [e \in Emails |-> 0]
    /\ seen = None
    /\ loaded = [e \in Emails |-> None]
    /\ calls = [w \in Workers |-> IdleCall]
    /\ redisUp = TRUE
    /\ mailbox = {}
    /\ contacts = {}
    /\ signups = [w \in Workers |-> IdleSignup]

\* The record of a request: what was called with what, the response, the time
\* of the call and the users table as the call found it.
Request(op, arg, r) ==
    [op |-> op, arg |-> arg, res |-> Response(r), at |-> now, before |-> users]

Tick ==
    /\ now < MaxTicks * ClockStep
    /\ now' = now + ClockStep
    /\ UNCHANGED <<otherVars, resetVars, guardHist, calls, users, cache, tasks, last, lastIssued, confirmAsked>>

Elapse ==
    /\ now < MaxElapse * ElapseStep
    /\ now' = now + ElapseStep
    /\ UNCHANGED <<otherVars, resetVars, guardHist, calls, users, cache, tasks, last, lastIssued,
                   confirmAsked>>

(***************************************************************************)
(* routes/auth.py                                                          *)
(***************************************************************************)
\* Gravatar(email).get_image()
GravatarImage(email) == <<"gravatar", email>>

Signup(name, email, password, salt, gravatarOk) ==
    LET existing_user == SelectUser(users, email) IN
    IF existing_user # None
    THEN /\ last' = Request("signup", <<name, email, password>>,
                            Raise("HTTPException", 409, "Email already registered"))
         /\ UNCHANGED <<otherVars, resetVars, guardHist, calls, users, cache, tasks, now, lastIssued, confirmAsked>>
    ELSE LET hashed_password == get_password_hash(password, salt)
             avatar == IF gravatarOk THEN GravatarImage(email) ELSE None
             new_user == NewUser(Cardinality(users) + 1, name, email, hashed_password, avatar)
         IN  /\ users' = users \cup {new_user}
             /\ tasks' = tasks \cup {[fn |-> "send_email", email |-> new_user.email,
                                      username |-> new_user.user_name, host |-> BaseUrl]}
             /\ last' = Request("signup", <<name, email, password>>, Return(new_user))
             /\ UNCHANGED <<otherVars, resetVars, guardHist, calls, cache, now, lastIssued, confirmAsked>>

\* Variant of LoginChecked that writes the new refresh token before it looks
\* at the confirmed flag (used to test C6).
LoginCheckedPersistsFirst(user, username, password) ==
    LET new_refresh_token == refresh_access_token([sub |-> user.email], now) IN
    /\ users' = UpdateUser(users, user, "refresh_token", new_refresh_token)
    /\ last' = Request("login", <<username, password>>,
                       IF ~HasAttr(user, "confirmed")
                       THEN Raise("AttributeError", 0, "confirmed")
                       ELSE Raise("HTTPException", 401, "Email not confirmed"))
    /\ UNCHANGED <<otherVars, resetVars, guardHist, calls, cache, tasks, now, lastIssued, confirmAsked>>

\* login, from the confirmed check on (lines 82-91): user is the row whose
\* password verified.
LoginChecked(user, username, password) ==
    IF ~HasAttr(user, "confirmed")
    THEN /\ last' = Request("login", <<username, password>>,
                            Raise("AttributeError", 0, "confirmed"))
         /\ UNCHANGED <<otherVars, resetVars, guardHist, calls, users, cache, tasks, now, lastIssued, confirmAsked>>
    ELSE IF user.confirmed # TRUE
    THEN /\ last' = Request("login", <<username, password>>,
                            Raise("HTTPException", 401, "Email not confirmed"))
         /\ UNCHANGED <<otherVars, resetVars, guardHist, calls, users, cache, tasks, now, lastIssued, confirmAsked>>
    ELSE LET access_token == create_access_token([sub |-> user.email], now)
             new_refresh_token == refresh_access_token([sub |-> user.email], now)
         IN  /\ users' = UpdateUser(users, user, "refresh_token", new_refresh_token)
             /\ lastIssued' = [lastIssued EXCEPT ![user.email] = new_refresh_token]
             /\ last' = Request("login", <<username, password>>,
                                Return([access_token |-> access_token,
                                        refresh_token |-> new_refresh_token,
                                        token_type |-> "bearer"]))
             /\ UNCHANGED <<otherVars, resetVars, guardHist, calls, cache, tasks, now, confirmAsked>>

\* Variant of Login that answers an unknown email differently from a wrong
\* password (used to test C9).
LoginTellsUnknown(username, password) ==
    LET user == SelectUser(users, username) IN
    IF user = None
    THEN /\ last' = Request("login", <<username, password>>,
                            Raise("HTTPException", 404, "User not found"))
         /\ UNCHANGED <<otherVars, resetVars, guardHist, calls, users, cache, tasks, now, lastIssued, confirmAsked>>
    ELSE IF ~verify_password(password, user.password)
    THEN /\ last' = Request("login", <<username, password>>,
                            Raise("HTTPException", 401, "Invalid credentials"))
         /\ UNCHANGED <<otherVars, resetVars, guardHist, calls, users, cache, tasks, now, lastIssued, confirmAsked>>
    ELSE LoginChecked(user, username, password)

Login(username, password) ==
    LET user == SelectUser(users, username) IN
    IF user = None \/ ~verify_password(password, user.password)
    THEN /\ last' = Request("login", <<username, password>>,
                            Raise("HTTPException", 401, "Invalid credentials"))
         /\ UNCHANGED <<otherVars, resetVars, guardHist, calls, users, cache, tasks, now, lastIssued, confirmAsked>>
    ELSE LoginChecked(user, username, password)

RefreshToken(refresh_token) ==
    LET e == decode_refresh_token(refresh_token, now) IN
    IF e.raised # ""
    THEN /\ last' = Request("refresh_token", refresh_token, e)
         /\ UNCHANGED <<otherVars, resetVars, guardHist, calls, users, cache, tasks, now, lastIssued, confirmAsked>>
    ELSE LET email == e.value
             user == SelectUser(users, email)
         IN  IF user = None \/ user.refresh_token # refresh_token
             THEN /\ last' = Request("refresh_token", refresh_token,
                                     Raise("HTTPException", 401, "Invalid refresh token"))
                  /\ UNCHANGED <<otherVars, resetVars, guardHist, calls, users, cache, tasks, now, lastIssued, confirmAsked>>
             ELSE LET access_token == create_access_token([sub |-> email], now)
                      new_refresh_token == refresh_access_token([sub |-> email], now)
                  IN  /\ users' = UpdateUser(users, user, "refresh_token", new_refresh_token)
                      /\ lastIssued' = [lastIssued EXCEPT ![email] = new_refresh_token]
                      /\ last' = Request("refresh_token", refresh_token,
                                         Return([access_token |-> access_token,
                                                 refresh_token |-> new_refresh_token,
                                                 token_type |-> "bearer"]))
                      /\ UNCHANGED <<otherVars, resetVars, guardHist, calls, cache, tasks, now, confirmAsked>>

\* Whether token is an email-verification token: signed by create_email_token,
\* which puts no scope into the payload.
IsEmailToken(token) == token[2] = SECRET_KEY /\ "scope" \notin DOMAIN token[1]

ConfirmedEmail(token) ==
    LET e == get_email_from_token(token, now) IN
    IF e.raised # ""
    THEN /\ last' = Request("confirmed_email", token, e)
         /\ UNCHANGED <<otherVars, resetVars, guardHist, calls, users, cache, tasks, now, lastIssued, confirmAsked>>
    ELSE LET user == SelectUser(users, e.value) IN
         IF user = None
         THEN /\ last' = Request("confirmed_email", token,
                                 Raise("HTTPException", 400, "Verification error"))
              /\ UNCHANGED <<otherVars, resetVars, guardHist, calls, users, cache, tasks, now, lastIssued, confirmAsked>>
         ELSE /\ confirmAsked' = IF IsEmailToken(token)
                                 THEN confirmAsked \cup {e.value} ELSE confirmAsked
              /\ UNCHANGED <<otherVars, resetVars, guardHist, calls, cache, tasks, now, lastIssued>>
              /\ IF ~HasAttr(user, "confirmed")
                 THEN /\ last' = Request("confirmed_email", token,
                                         Raise("AttributeError", 0, "confirmed"))
                      /\ users' = users
                 ELSE IF user.confirmed = TRUE
                 THEN /\ last' = Request("confirmed_email", token,
                                  Return([message |-> "Your email is already confirmed"]))
                      /\ users' = users
                 ELSE /\ users' = UpdateUser(users, user, "confirmed", TRUE)
                      /\ last' = Request("confirmed_email", token,
                                  Return([message |-> "Email confirmed successfully"]))

(***************************************************************************)
(* routes/auth.py: signup as the event loop runs it.  The handler gives up *)
(* control at each await (lines 37, 57, 58).  Each worker handles one      *)
(* request.                                                                *)
(***************************************************************************)
SignupAnswer(w, status, raised) ==
    [signups EXCEPT ![w].pc = "done", ![w].status = status, ![w].raised = raised]

\* The confirmation email signup schedules (line 59).
ConfirmationTask(user) ==
    [fn |-> "send_email", email |-> user.email, username |-> user.user_name, host |-> BaseUrl]

\* Variant of SignupSelect that schedules the confirmation email before the
\* user is committed (used to test C24).
SignupSelectSchedulesFirst(w, name, email, password, salt, gravatarOk) ==
    LET existing_user == SelectUser(users, email) IN
    /\ signups[w].pc = "idle"
    /\ signups' = [signups EXCEPT ![w] =
                      [pc |-> "commit", name |-> name, email |-> email,
                       hashed |-> get_password_hash(password, salt),
                       avatar |-> IF gravatarOk THEN GravatarImage(email) ELSE None,
                       new_user |-> None, status |-> 0, raised |-> ""]]
    /\ tasks' = tasks \cup {[fn |-> "send_email", email |-> email, username |-> name,
                             host |-> BaseUrl]}
    /\ UNCHANGED <<redisUp, mailbox, contacts, resetVars, guardHist, calls, users, cache,
                   now, last, lastIssued, confirmAsked>>

\* lines 36-38: result = await session.execute(query), then lines 39-56
SignupSelect(w, name, email, password, salt, gravatarOk) ==
    LET existing_user == SelectUser(users, email) IN
    /\ signups[w].pc = "idle"
    /\ signups' = IF existing_user # None
                  THEN [SignupAnswer(w, 409, "HTTPException") EXCEPT
                           ![w].name = name, ![w].email = email]
                  ELSE [signups EXCEPT ![w] =
                           [pc |-> "commit", name |-> name, email |-> email,
                            hashed |-> get_password_hash(password, salt),
                            avatar |-> IF gravatarOk THEN GravatarImage(email) ELSE None,
                            new_user |-> None, status |-> 0, raised |-> ""]]
    /\ UNCHANGED <<redisUp, mailbox, contacts, resetVars, guardHist, calls, users, cache,
                   tasks, now, last, lastIssued, confirmAsked>>

\* line 57: await session.commit().  The INSERT fails with IntegrityError when
\* a row with the email exists (User.email is unique, models.py line 32).
SignupCommit(w) ==
    LET new_user == NewUser(Cardinality(users) + 1, signups[w].name, signups[w].email,
                            signups[w].hashed, signups[w].avatar) IN
    /\ signups[w].pc = "commit"
    /\ IF SelectUser(users, signups[w].email) # None
       THEN /\ signups' = SignupAnswer(w, 500, "IntegrityError")
            /\ users' = users
       ELSE /\ users' = users \cup {new_user}
            /\ signups' = [signups EXCEPT ![w].pc = "refresh", ![w].new_user = new_user]
    /\ UNCHANGED <<redisUp, mailbox, contacts, resetVars, guardHist, calls, cache, tasks,
                   now, last, lastIssued, confirmAsked>>

\* line 58: await session.refresh(new_user), then lines 59-60
SignupRefresh(w) ==
    /\ signups[w].pc = "refresh"
    /\ tasks' = tasks \cup {ConfirmationTask(signups[w].new_user)}
    /\ signups' = SignupAnswer(w, 200, "")
    /\ UNCHANGED <<redisUp, mailbox, contacts, resetVars, guardHist, calls, users, cache,
                   now, last, lastIssued, confirmAsked>>

(***************************************************************************)
(* routes/auth.py: password reset.  The reset codes live in redis under    *)
(* the key "reset_code:<email>"; redis hands a stored string back as       *)
(* bytes.                                                                  *)
(***************************************************************************)
\* str(random.randint(100000, 999999)): the two ends of the range
ResetCodes == {"100000", "999999"}

\* str.encode / bytes.decode('utf-8')
Bytes(s) == <<"bytes", s>>
Decode(b) == b[2]

\* redis SETEX key seconds value
RedisSetex(store, key, seconds, value, t) == RedisSet(store, key, Bytes(value), seconds, t)

\* redis DEL key
RedisDelete(store, key) == [store EXCEPT ![key] = None]

\* f"Your password reset code: {reset_code}"
ResetCodeMessage(reset_code) ==
    IF reset_code = "100000" THEN "Your password reset code: 100000"
    ELSE "Your password reset code: 999999"

GenericAcknowledgement ==
    [message |-> "If an account with that email exists, a password reset code has been sent."]

IssueCount(email) == IF issued[email] = None THEN 0 ELSE issued[email].n

\* Variant of StoreResetCode that keeps a code already stored for the email
\* (used to test C14).
StoreResetCodeKeepsFirst(email, reset_code) ==
    /\ codes' = IF codes[email] # None THEN codes
                ELSE RedisSetex(codes, email, ResetTTL, reset_code, now)
    /\ issued' = [issued EXCEPT ![email] =
                     [code |-> reset_code, at |-> now, n |-> IssueCount(email) + 1]]
    /\ redeemed' = [redeemed EXCEPT ![email] = 0]

\* The write of the code (line 206) and its history.
StoreResetCode(email, reset_code) ==
    /\ codes' = RedisSetex(codes, email, ResetTTL, reset_code, now)
    /\ issued' = [issued EXCEPT ![email] =
                     [code |-> reset_code, at |-> now, n |-> IssueCount(email) + 1]]
    /\ redeemed' = [redeemed EXCEPT ![email] = 0]

\* request_password_reset when the account exists (lines 204-207).
IssueResetCode(user, email, reset_code) ==
    /\ IssueCount(email) < MaxIssues
    /\ StoreResetCode(email, reset_code)
    /\ tasks' = tasks \cup {[fn |-> "send_email", email |-> user.email,
                             username |-> ResetCodeMessage(reset_code),
                             host |-> "Code"]}
    /\ UNCHANGED <<otherVars, guardHist, calls, users, cache, now, lastIssued, confirmAsked>>

\* Variant of RequestPasswordReset that tells the caller when the email has
\* no account (used to test C11).
RequestPasswordResetTellsUnknown(email, reset_code) ==
    LET user == SelectUser(users, email) IN
    IF user # None
    THEN /\ last' = Request("request_password_reset", <<email>>,
                            Return(GenericAcknowledgement))
         /\ IssueResetCode(user, email, reset_code)
    ELSE /\ last' = Request("request_password_reset", <<email>>,
                            Raise("HTTPException", 404, "User not found"))
         /\ UNCHANGED <<otherVars, resetVars, guardHist, calls, users, cache, tasks, now,
                        lastIssued, confirmAsked>>

RequestPasswordReset(email, reset_code) ==
    LET user == SelectUser(users, email) IN
    /\ last' = Request("request_password_reset", <<email>>, Return(GenericAcknowledgement))
    /\ IF user # None
       THEN IssueResetCode(user, email, reset_code)
       ELSE UNCHANGED <<otherVars, resetVars, guardHist, calls, users, cache, tasks, now,
                        lastIssued, confirmAsked>>

InvalidResetRequest ==
    [status |-> 400, body |-> [detail |-> "Invalid code or email"], raised |-> "HTTPException"]

\* Variant of ResetPasswordChecked that leaves the redeemed code in redis
\* (used to test C12).
ResetPasswordKeepsCode(stored_code, email, reset_code, new_password, salt) ==
    LET user == SelectUser(users, email) IN
    IF Decode(stored_code) = reset_code /\ user # None
    THEN /\ users' = UpdateUser(users, user, "password", get_password_hash(new_password, salt))
         /\ redeemed' = [redeemed EXCEPT ![email] = @ + 1]
         /\ last' = Request("reset_password", <<email, reset_code, new_password>>,
                            Return([message |-> "Password reset successfully"]))
         /\ UNCHANGED <<otherVars, codes, issued, guardHist, calls, cache, tasks, now, lastIssued,
                        confirmAsked>>
    ELSE /\ last' = Request("reset_password", <<email, reset_code, new_password>>,
                            Raise("HTTPException", 400, "Invalid code or email"))
         /\ UNCHANGED <<otherVars, resetVars, guardHist, calls, users, cache, tasks, now,
                        lastIssued, confirmAsked>>

\* UPDATE users SET ... WHERE users.id = <id of the loaded instance>
UpdateById(rows, id, col, v) ==
    {IF u.id = id THEN [u EXCEPT ![col] = v] ELSE u : u \in rows}

\* Variant of ResetPasswordChecked that also ends the user's sessions by
\* overwriting the stored refresh token (used to test C28).
ResetPasswordRevokes(stored_code, email, reset_code, new_password, salt) ==
    LET user == SelectUser(users, email) IN
    IF Decode(stored_code) = reset_code /\ user # None
    THEN /\ users' = UpdateById(UpdateUser(users, user, "password",
                                           get_password_hash(new_password, salt)),
                                user.id, "refresh_token", <<"revoked">>)
         /\ codes' = RedisDelete(codes, email)
         /\ redeemed' = [redeemed EXCEPT ![email] = @ + 1]
         /\ last' = Request("reset_password", <<email, reset_code, new_password>>,
                            Return([message |-> "Password reset successfully"]))
         /\ UNCHANGED <<otherVars, issued, guardHist, calls, cache, tasks, now, lastIssued, confirmAsked>>
    ELSE /\ last' = Request("reset_password", <<email, reset_code, new_password>>,
                            Raise("HTTPException", 400, "Invalid code or email"))
         /\ UNCHANGED <<otherVars, resetVars, guardHist, calls, users, cache, tasks, now,
                        lastIssued, confirmAsked>>

\* reset_password, from the comparison on (lines 227-238): stored_code is the
\* value redis returned for the key.
ResetPasswordChecked(stored_code, email, reset_code, new_password, salt) ==
    LET user == SelectUser(users, email) IN
    IF Decode(stored_code) = reset_code /\ user # None
    THEN /\ users' = UpdateUser(users, user, "password", get_password_hash(new_password, salt))
         /\ codes' = RedisDelete(codes, email)
         /\ redeemed' = [redeemed EXCEPT ![email] = @ + 1]
         /\ last' = Request("reset_password", <<email, reset_code, new_password>>,
                            Return([message |-> "Password reset successfully"]))
         /\ UNCHANGED <<otherVars, issued, guardHist, calls, cache, tasks, now, lastIssued, confirmAsked>>
    ELSE /\ last' = Request("reset_password", <<email, reset_code, new_password>>,
                            Raise("HTTPException", 400, "Invalid code or email"))
         /\ UNCHANGED <<otherVars, resetVars, guardHist, calls, users, cache, tasks, now,
                        lastIssued, confirmAsked>>

\* Variant of ResetPassword that reads the stored code whatever its age (used
\* to test C15).
ResetPasswordIgnoresExpiry(email, reset_code, new_password, salt) ==
    IF codes[email] # None
    THEN ResetPasswordChecked(codes[email].value, email, reset_code, new_password, salt)
    ELSE /\ last' = Request("reset_password", <<email, reset_code, new_password>>,
                            Raise("HTTPException", 400, "Invalid code or email"))
         /\ UNCHANGED <<otherVars, resetVars, guardHist, calls, users, cache, tasks, now,
                        lastIssued, confirmAsked>>

ResetPassword(email, reset_code, new_password, salt) ==
    LET stored_code == RedisGet(codes, email, now) IN
    IF stored_code # None
    THEN ResetPasswordChecked(stored_code, email, reset_code, new_password, salt)
    ELSE /\ last' = Request("reset_password", <<email, reset_code, new_password>>,
                            Raise("HTTPException", 400, "Invalid code or email"))
         /\ UNCHANGED <<otherVars, resetVars, guardHist, calls, users, cache, tasks, now,
                        lastIssued, confirmAsked>>

(***************************************************************************)
(* routes/auth.py: reset_password as the event loop runs it.  The handler  *)
(* gives up control at each await (lines 224, 229, 234, 235); between two  *)
(* awaits of one request the steps of another request can run.  Each       *)
(* worker handles one request.                                             *)
(***************************************************************************)
Answer(w, status) == [calls EXCEPT ![w].pc = "done", ![w].status = status]

\* line 224: stored_code = await redis_client.get(...), then lines 225-227
ResetGet(w, email, reset_code, new_password, salt) ==
    LET stored_code == RedisGet(codes, email, now) IN
    /\ calls[w].pc = "idle"
    /\ calls' = IF stored_code = None \/ Decode(stored_code) # reset_code
                THEN [Answer(w, 400) EXCEPT ![w].email = email, ![w].reset_code = reset_code]
                ELSE [calls EXCEPT ![w] =
                         [pc |-> "select", email |-> email, reset_code |-> reset_code,
                          new_password |-> new_password, salt |-> salt,
                          serial |-> IssueCount(email), user |-> None, status |-> 0]]
    /\ UNCHANGED <<otherVars, resetVars, guardHist, users, cache, tasks, now, last, lastIssued,
                   confirmAsked>>

\* lines 228-230: result = await session.execute(query), then line 232
ResetSelect(w) ==
    LET user == SelectUser(users, calls[w].email) IN
    /\ calls[w].pc = "select"
    /\ calls' = IF user = None THEN Answer(w, 400)
                ELSE [calls EXCEPT ![w].pc = "commit", ![w].user = user]
    /\ UNCHANGED <<otherVars, resetVars, guardHist, users, cache, tasks, now, last, lastIssued,
                   confirmAsked>>

\* lines 233-234: user.password = ...; await session.commit()
ResetCommit(w) ==
    /\ calls[w].pc = "commit"
    /\ users' = UpdateById(users, calls[w].user.id, "password",
                           get_password_hash(calls[w].new_password, calls[w].salt))
    /\ redeemed' = [redeemed EXCEPT ![calls[w].email] = @ + 1]
    /\ calls' = [calls EXCEPT ![w].pc = "delete"]
    /\ UNCHANGED <<otherVars, codes, issued, guardHist, cache, tasks, now, last, lastIssued,
                   confirmAsked>>

\* lines 235-236: await redis_client.delete(...); return
ResetDelete(w) ==
    /\ calls[w].pc = "delete"
    /\ codes' = RedisDelete(codes, calls[w].email)
    /\ calls' = Answer(w, 200)
    /\ UNCHANGED <<otherVars, issued, redeemed, guardHist, users, cache, tasks, now, last,
                   lastIssued, confirmAsked>>

(***************************************************************************)
(* routes/users.py: a protected route.                                     *)
(***************************************************************************)
\* Auth.get_current_user when the redis server does not answer: the token is
\* decoded as before, then redis_client.get (line 133) raises ConnectionError,
\* which nothing catches.
get_current_user_no_redis(token, store, t) ==
    LET credentials_exception ==
            Raise("HTTPException", 401, "Could not validate credentials")
        d == JwtDecode(token, SECRET_KEY, t)
    IN  IF d.raised # "" THEN [result |-> credentials_exception, cache |-> store]
        ELSE IF "sub" \notin DOMAIN d.value
             THEN [result |-> credentials_exception, cache |-> store]
             ELSE [result |-> Raise("ConnectionError", 0, "Error connecting to redis"),
                   cache |-> store]

CurrentUser(token) ==
    IF redisUp THEN get_current_user(token, users, cache, now)
    ELSE get_current_user_no_redis(token, cache, now)

\* The dependency auth.get_current_user of a protected route: the cache it
\* leaves, and the history of what it found in the cache and read from the
\* users table.
GuardCall(token) ==
    LET g == CurrentUser(token)
        d == JwtDecode(token, SECRET_KEY, now)
        resolves == redisUp /\ d.raised = "" /\ "sub" \in DOMAIN d.value
    IN  /\ cache' = g.cache
        /\ seen' = IF resolves THEN RedisGet(cache, d.value.sub, now) ELSE None
        /\ loaded' = IF resolves /\ g.cache # cache
                      THEN [loaded EXCEPT ![d.value.sub] =
                               [row |-> SelectUser(users, d.value.sub), at |-> now]]
                      ELSE loaded

ReadUsersMe(token) ==
    LET g == CurrentUser(token) IN
    /\ GuardCall(token)
    /\ last' = Request("read_users_me", token, g.result)
    /\ UNCHANGED <<otherVars, resetVars, calls, users, tasks, now, lastIssued, confirmAsked>>

\* The redis server stops answering, and answers again (with the keys it had).
RedisFails ==
    /\ redisUp
    /\ redisUp' = FALSE
    /\ UNCHANGED <<mailbox, contacts, signups, resetVars, guardHist, calls, users, cache,
                   tasks, now, last, lastIssued, confirmAsked>>

RedisRecovers ==
    /\ ~redisUp
    /\ redisUp' = TRUE
    /\ UNCHANGED <<mailbox, contacts, signups, resetVars, guardHist, calls, users, cache,
                   tasks, now, last, lastIssued, confirmAsked>>

\* cloudinary.uploader.upload(...): it raises, or returns a result without a
\* secure_url, or returns the URL of the image stored under the user's email.
Uploads == {"error", "no_url", "ok"}
CloudinaryUrl(email) == <<"cloudinary", email>>

\* Variant of UploadAvatar that writes the whole instance it holds back to the
\* row, not only the attribute it set (used to test C25).
UploadAvatarWritesSnapshot(token, upload) ==
    LET g == CurrentUser(token) IN
    /\ GuardCall(token)
    /\ UNCHANGED <<otherVars, resetVars, calls, tasks, now, lastIssued, confirmAsked>>
    /\ IF g.result.raised # ""
       THEN /\ last' = Request("upload_avatar", <<token, upload>>, g.result)
            /\ users' = users
       ELSE LET current_user == g.result.value IN
            IF upload = "error"
            THEN /\ last' = Request("upload_avatar", <<token, upload>>,
                                    Raise("HTTPException", 500, "Error uploading image"))
                 /\ users' = users
            ELSE IF upload = "no_url"
            THEN /\ last' = Request("upload_avatar", <<token, upload>>,
                                    Raise("HTTPException", 500, "Could not retrieve image URL"))
                 /\ users' = users
            ELSE LET image_url == CloudinaryUrl(current_user.email) IN
                 /\ users' = {u \in users : u.id # current_user.id}
                                 \cup {[current_user EXCEPT !.avatar = image_url]}
                 /\ last' = Request("upload_avatar", <<token, upload>>,
                                    Return([avatar_url |-> image_url]))

UploadAvatar(token, upload) ==
    LET g == CurrentUser(token) IN
    /\ GuardCall(token)
    /\ UNCHANGED <<otherVars, resetVars, calls, tasks, now, lastIssued, confirmAsked>>
    /\ IF g.result.raised # ""
       THEN /\ last' = Request("upload_avatar", <<token, upload>>, g.result)
            /\ users' = users
       ELSE LET current_user == g.result.value IN
            IF upload = "error"
            THEN /\ last' = Request("upload_avatar", <<token, upload>>,
                                    Raise("HTTPException", 500, "Error uploading image"))
                 /\ users' = users
            ELSE IF upload = "no_url"
            THEN /\ last' = Request("upload_avatar", <<token, upload>>,
                                    Raise("HTTPException", 500, "Could not retrieve image URL"))
                 /\ users' = users
            ELSE LET image_url == CloudinaryUrl(current_user.email) IN
                 /\ users' = UpdateById(users, current_user.id, "avatar", image_url)
                 /\ last' = Request("upload_avatar", <<token, upload>>,
                                    Return([avatar_url |-> image_url]))

(***************************************************************************)
(* routes/contacts.py: the contacts of a user.  A contact row holds the     *)
(* columns of entity/models.py that the routes read or write; first_name   *)
(* stands for the body's fields other than the unique email.               *)
(***************************************************************************)
FirstNames == {"Ann", "Bob"}
ContactEmails == {"c1@x.com", "c2@x.com"}
ContactBodies == [first_name : FirstNames, email : ContactEmails]
ContactIds == 1..MaxContacts

\* The id the contacts table gives the next row.
NextContactId ==
    IF contacts = {} THEN 1
    ELSE (CHOOSE c \in contacts : \A d \in contacts : d.id <= c.id).id + 1

\* select(Contact).filter(Contact.id == contact_id) ... .scalars().first():
\* contact_id is the UUID of the path and Contact.id an Integer column; binds
\* tells whether the database driver takes the value for the comparison or
\* refuses to bind it.
SelectContact(rows, contact_id, binds) ==
    IF ~binds THEN Raise("DBAPIError", 0, "Error binding parameter")
    ELSE IF \E c \in rows : c.id = contact_id
         THEN Return(CHOOSE c \in rows : c.id = contact_id)
         ELSE Return(None)

\* if contact.user_id != current_user.id
\*        and current_user.role not in ['admin', 'moderator']: raise 403
Authorize(contact, current_user, detail) ==
    IF contact.user_id = current_user.id THEN Return(contact)
    ELSE IF ~HasAttr(current_user, "role") THEN Raise("AttributeError", 0, "role")
    ELSE IF current_user.role \notin {"admin", "moderator"}
         THEN Raise("HTTPException", 403, detail)
         ELSE Return(contact)

\* The select and the checks that read_contact, update_contact and
\* delete_contact start with.
FindContact(current_user, contact_id, binds, detail) ==
    LET sel == SelectContact(contacts, contact_id, binds) IN
    IF sel.raised # "" THEN sel
    ELSE IF sel.value = None THEN Raise("HTTPException", 404, "Contact not found")
    ELSE Authorize(sel.value, current_user, detail)

ContactFrame ==
    UNCHANGED <<redisUp, mailbox, signups, resetVars, calls, users, tasks, now, lastIssued,
                confirmAsked>>

CreateContact(token, body) ==
    LET g == CurrentUser(token) IN
    /\ NextContactId <= MaxContacts
    /\ GuardCall(token)
    /\ ContactFrame
    /\ IF g.result.raised # ""
       THEN /\ last' = Request("create_contact", <<token, body>>, g.result)
            /\ contacts' = contacts
       ELSE LET current_user == g.result.value
                new_contact == [id |-> NextContactId, first_name |-> body.first_name,
                                email |-> body.email, user_id |-> current_user.id]
            IN  IF \E c \in contacts : c.email = body.email
                THEN /\ last' = Request("create_contact", <<token, body>>,
                                        Raise("IntegrityError", 0, "contacts.email"))
                     /\ contacts' = contacts
                ELSE /\ contacts' = contacts \cup {new_contact}
                     /\ last' = Request("create_contact", <<token, body>>, Return(new_contact))

ReadContact(token, contact_id, binds) ==
    LET g == CurrentUser(token) IN
    /\ GuardCall(token)
    /\ ContactFrame
    /\ contacts' = contacts
    /\ IF g.result.raised # ""
       THEN last' = Request("read_contact", <<token, contact_id>>, g.result)
       ELSE last' = Request("read_contact", <<token, contact_id>>,
                            FindContact(g.result.value, contact_id, binds,
                                        "Not authorized to read this contact"))

UpdateContact(token, contact_id, body, binds) ==
    LET g == CurrentUser(token) IN
    /\ GuardCall(token)
    /\ ContactFrame
    /\ IF g.result.raised # ""
       THEN /\ last' = Request("update_contact", <<token, contact_id, body>>, g.result)
            /\ contacts' = contacts
       ELSE LET f == FindContact(g.result.value, contact_id, binds,
                                 "Not authorized to update this contact")
            IN  IF f.raised # ""
                THEN /\ last' = Request("update_contact", <<token, contact_id, body>>, f)
                     /\ contacts' = contacts
                ELSE LET existing_contact == f.value
                         updated == [existing_contact EXCEPT !.first_name = body.first_name,
                                                             !.email = body.email]
                     IN  IF \E c \in contacts \ {existing_contact} : c.email = body.email
                         THEN /\ last' = Request("update_contact", <<token, contact_id, body>>,
                                                 Raise("IntegrityError", 0, "contacts.email"))
                              /\ contacts' = contacts
                         ELSE /\ contacts' = (contacts \ {existing_contact}) \cup {updated}
                              /\ last' = Request("update_contact", <<token, contact_id, body>>,
                                                 Return(updated))

DeleteContact(token, contact_id, binds) ==
    LET g == CurrentUser(token) IN
    /\ GuardCall(token)
    /\ ContactFrame
    /\ IF g.result.raised # ""
       THEN /\ last' = Request("delete_contact", <<token, contact_id>>, g.result)
            /\ contacts' = contacts
       ELSE LET f == FindContact(g.result.value, contact_id, binds,
                                 "Not authorized to delete this contact")
            IN  /\ last' = Request("delete_contact", <<token, contact_id>>, f)
                /\ contacts' = IF f.raised # "" THEN contacts ELSE contacts \ {f.value}

(***************************************************************************)
(* services/email.py: send_email, run as a background task after the       *)
(* response.  It signs an email-verification token for the recipient and   *)
(* mails the link; a failure to send is swallowed.                         *)
(***************************************************************************)
SendEmail(task, delivered) ==
    /\ task \in tasks
    /\ tasks' = tasks \ {task}
    /\ mailbox' = IF delivered THEN mailbox \cup {task} ELSE mailbox
    /\ UNCHANGED <<redisUp, contacts, signups, resetVars, guardHist, calls, users, cache,
                   now, last, lastIssued, confirmAsked>>

(***************************************************************************)
(* Spec: the authentication flows of routes/auth.py.                       *)
(* SpecGuard: the protected route with the session cache.                  *)
(***************************************************************************)
DoSignup ==
    \E n \in UserNames, e \in Emails, p \in SignupPasswords, s \in Salts, g \in BOOLEAN :
        Signup(n, e, p, s, g)

DoSendEmail == \E t \in tasks, d \in BOOLEAN : SendEmail(t, d)

Next ==
    \/ Tick
    \/ DoSignup
    \/ DoSendEmail
    \/ \E e \in Emails, p \in Passwords : Login(e, p)
    \/ \E t \in Tokens(now) : RefreshToken(t)
    \/ \E t \in Tokens(now) : ConfirmedEmail(t)

Spec == Init /\ [][Next]_vars

NextGuard ==
    \/ Tick
    \/ DoSignup
    \/ DoSendEmail
    \/ \E t \in Tokens(now) : ReadUsersMe(t)

SpecGuard == Init /\ [][NextGuard]_vars

(***************************************************************************)
(* SpecReset: the password-reset flow, with login and email confirmation,  *)
(* on the half-hour clock.                                                 *)
(***************************************************************************)
\* The email-verification tokens send_email can have signed up to time t.
EmailTokens(t) ==
    {create_email_token([sub |-> e], i) : e \in Emails, i \in {x \in ElapseTimes : x <= t}}

DoRequestPasswordReset == \E e \in Emails, c \in ResetCodes : RequestPasswordReset(e, c)

DoResetPassword ==
    \E e \in Emails, c \in ResetCodes, p \in Passwords, s \in Salts : ResetPassword(e, c, p, s)

\* One account signs up in this flow; the other email stays unknown.
DoSignupOne ==
    \E n \in UserNames, p \in SignupPasswords, s \in Salts : Signup(n, "a@x.com", p, s, TRUE)

NextReset ==
    \/ Elapse
    \/ DoSignupOne
    \/ DoRequestPasswordReset
    \/ DoResetPassword
    \/ \E e \in Emails, p \in Passwords : Login(e, p)
    \/ \E t \in EmailTokens(now) : ConfirmedEmail(t)

SpecReset == Init /\ [][NextReset]_vars

(***************************************************************************)
(* SpecCache: the protected routes with the session cache, beside the      *)
(* routes that change a user's row, on the half-hour clock.                *)
(***************************************************************************)
\* The access tokens login can have signed up to time t, and the forged one.
GuardTokens(t) ==
    {create_access_token([sub |-> e], i) : e \in Emails, i \in {x \in ElapseTimes : x <= t}}
        \cup {ForgedToken}

\* The one account's password reset, confirmation and login.
DoResetOne ==
    \/ RequestPasswordReset("a@x.com", "100000")
    \/ \E s \in Salts : ResetPassword("a@x.com", "100000", "pw2", s)

DoConfirmOne == ConfirmedEmail(create_email_token([sub |-> "a@x.com"], 0))

DoLoginOne == \E p \in SignupPasswords : Login("a@x.com", p)

NextCache ==
    \/ Elapse
    \/ DoSignupOne
    \/ \E t \in GuardTokens(now) : ReadUsersMe(t)
    \/ \E t \in GuardTokens(now), u \in Uploads : UploadAvatar(t, u)
    \/ DoResetOne
    \/ DoConfirmOne
    \/ DoLoginOne

SpecCache == Init /\ [][NextCache]_vars

(***************************************************************************)
(* SpecOutage: the protected route while the redis server comes and goes.  *)
(***************************************************************************)
NextOutage ==
    \/ Elapse
    \/ DoSignupOne
    \/ RedisFails
    \/ RedisRecovers
    \/ \E t \in GuardTokens(now) : ReadUsersMe(t)

SpecOutage == Init /\ [][NextOutage]_vars

(***************************************************************************)
(* SpecExpiry: the three kinds of token, signed at time 0, presented at    *)
(* the end of each lifetime and one second after it.                       *)
(***************************************************************************)
Deadlines == {AccessTTL, EmailTTL, RefreshTTL}
Instants == {0} \cup Deadlines \cup {d + 1 : d \in Deadlines}

\* The clock moves to the next of these instants.
Advance ==
    /\ \E t \in Instants :
          /\ t > now
          /\ \A u \in Instants : u > now => t <= u
          /\ now' = t
    /\ UNCHANGED <<otherVars, resetVars, guardHist, calls, users, cache, tasks, last,
                   lastIssued, confirmAsked>>

StartTokens ==
    UNION {{create_access_token([sub |-> e], 0),
            refresh_access_token([sub |-> e], 0),
            create_email_token([sub |-> e], 0)} : e \in Emails}

NextExpiry ==
    \/ Advance
    \/ DoSignupOne
    \/ \E t \in StartTokens : ReadUsersMe(t)
    \/ \E t \in StartTokens : RefreshToken(t)
    \/ \E t \in StartTokens : ConfirmedEmail(t)

SpecExpiry == Init /\ [][NextExpiry]_vars

(***************************************************************************)
(* SpecSignup: signup requests of two workers, interleaved at their        *)
(* awaits, and the background task that sends the confirmation email.      *)
(***************************************************************************)
DoSignupSelect ==
    \E w \in Workers, n \in UserNames, e \in Emails, p \in SignupPasswords, s \in Salts,
       g \in BOOLEAN : SignupSelect(w, n, e, p, s, g)

NextSignup ==
    \/ DoSignupSelect
    \/ \E w \in Workers : SignupCommit(w)
    \/ \E w \in Workers : SignupRefresh(w)
    \/ DoSendEmail

SpecSignup == Init /\ [][NextSignup]_vars

(***************************************************************************)
(* SpecContacts: the contacts routes called by two users.                  *)
(***************************************************************************)
DoSignupTwo ==
    \E e \in Emails, n \in UserNames, p \in SignupPasswords, s \in Salts :
        Signup(n, e, p, s, TRUE)

NextContacts ==
    \/ DoSignupTwo
    \/ \E t \in GuardTokens(now), b \in ContactBodies : CreateContact(t, b)
    \/ \E t \in GuardTokens(now), i \in ContactIds, d \in BOOLEAN : ReadContact(t, i, d)
    \/ \E t \in GuardTokens(now), i \in ContactIds, b \in ContactBodies, d \in BOOLEAN :
          UpdateContact(t, i, b, d)
    \/ \E t \in GuardTokens(now), i \in ContactIds, d \in BOOLEAN : DeleteContact(t, i, d)

SpecContacts == Init /\ [][NextContacts]_vars

(***************************************************************************)
(* SpecRace: reset_password requests of two workers, interleaved at their  *)
(* awaits.                                                                 *)
(***************************************************************************)
DoResetGet ==
    \E w \in Workers, e \in Emails, c \in ResetCodes, p \in Passwords, s \in Salts :
        ResetGet(w, e, c, p, s)

NextRace ==
    \/ DoSignupOne
    \/ DoRequestPasswordReset
    \/ DoResetGet
    \/ \E w \in Workers : ResetSelect(w)
    \/ \E w \in Workers : ResetCommit(w)
    \/ \E w \in Workers : ResetDelete(w)

SpecRace == Init /\ [][NextRace]_vars

(***************************************************************************)
(* Properties.                                                             *)
(***************************************************************************)
HasScope(token, scope) == "scope" \in DOMAIN token[1] /\ token[1].scope = scope

InvalidCredentials ==
    [status |-> 401, body |-> [detail |-> "Invalid credentials"], raised |-> "HTTPException"]

EmailNotConfirmed ==
    [status |-> 401, body |-> [detail |-> "Email not confirmed"], raised |-> "HTTPException"]

\* The user a login request named, as the request found it.
LoginUser == SelectUser(last.before, last.arg[1])

LoginCredentialsGood ==
    /\ last.op = "login"
    /\ LoginUser # None
    /\ verify_password(last.arg[2], LoginUser.password)

\* The user a token's subject names, as the request found it.
TokenUser == SelectUser(last.before, last.arg[1].sub)

\* C1: AuthGuard (get_current_user) accepts only access-scope tokens: a
\* protected route called with a bearer token whose scope is not access (a
\* refresh token, an email-verification token) answers 401 and yields no user.
C1_GuardAcceptsOnlyAccessScope ==
    (last.op = "read_users_me" /\ ~HasScope(last.arg, "access_token"))
        => last.res.status = 401

C3_RefreshRejectsOtherScopes ==
    (last.op = "refresh_token"
       /\ ValidAt(last.arg, last.at)
       /\ ~HasScope(last.arg, "refresh_token"))
        => (last.res.status = 401 /\ users = last.before)

\* C4: refresh-token rotation.  A login with the right password, after the
\* user's email confirmation was requested with a valid token, returns a token
\* pair whose refresh token is the persisted one (so that refresh accepts it
\* once), and a refresh presenting anything but the persisted value (a
\* superseded token) is not accepted.
C4_RefreshRotation ==
    /\ (LoginCredentialsGood /\ last.arg[1] \in confirmAsked)
        => /\ last.res.status = 200
           /\ SelectUser(users, last.arg[1]).refresh_token = last.res.body.refresh_token
    /\ (last.op = "refresh_token" /\ last.res.status = 200)
        => /\ TokenUser # None
           /\ TokenUser.refresh_token = last.arg

\* C5: refresh(token) succeeds if and only if the token verifies with scope
\* refresh, a user with its subject exists and the user's persisted refresh
\* token equals the presented one; on success the persisted value becomes the
\* returned refresh token; in every other case it answers 401 and changes
\* nothing.
RefreshShouldSucceed ==
    /\ ValidAt(last.arg, last.at)
    /\ HasScope(last.arg, "refresh_token")
    /\ TokenUser # None
    /\ TokenUser.refresh_token = last.arg

C5_RefreshSucceedsIff ==
    last.op = "refresh_token" =>
        IF RefreshShouldSucceed
        THEN /\ last.res.status = 200
             /\ SelectUser(users, last.arg[1].sub).refresh_token = last.res.body.refresh_token
        ELSE /\ last.res.status = 401
             /\ users = last.before

\* C6: in every state each user's persisted refresh token is absent when the
\* user never logged in, and otherwise the refresh token returned by the most
\* recent successful login or refresh of that user; refresh accepts at most one
\* token per user.
RefreshAccepts(token) ==
    LET e == decode_refresh_token(token, now) IN
    /\ e.raised = ""
    /\ SelectUser(users, e.value) # None
    /\ SelectUser(users, e.value).refresh_token = token

C8_UnconfirmedLoginRejected ==
    (LoginCredentialsGood /\ last.arg[1] \notin confirmAsked)
        => (last.res = EmailNotConfirmed /\ users = last.before)

\* C9: login with an unknown email and login with a known email and a wrong
\* password give the same response, 401 "Invalid credentials"; no token is
\* returned or persisted and the users table is left as it was.
C9_InvalidCredentialsUniform ==
    (last.op = "login" /\ ~LoginCredentialsGood)
        => /\ last.res = InvalidCredentials
           /\ users = last.before

\* C9 witness: a login with a known email and a wrong password was answered.
C9_Witness ==
    /\ last.op = "login"
    /\ LoginUser # None
    /\ ~verify_password(last.arg[2], LoginUser.password)
    /\ last.res = InvalidCredentials

\* C10: signup answers 409 and changes nothing when a user with the email
\* exists; otherwise it adds exactly one user, with that email, confirmed =
\* false and no refresh token, and returns it.
C10_SignupCreatesUnconfirmed ==
    last.op = "signup" =>
        IF SelectUser(last.before, last.arg[2]) # None
        THEN last.res.status = 409 /\ users = last.before
        ELSE /\ last.res.status = 200
             /\ users = last.before \cup {last.res.body}
             /\ last.res.body \notin last.before
             /\ last.res.body.email = last.arg[2]
             /\ last.res.body.refresh_token = None
             /\ HasAttr(last.res.body, "confirmed")
             /\ last.res.body.confirmed = FALSE

\* The reset-code emails scheduled for an address.
ResetTasks(email) == {t \in tasks : t.email = email /\ t.host = "Code"}

\* C11: request_password_reset answers an email that has an account and one
\* that has none with the same 200 response and the same generic message; when
\* the account exists a code is stored for one hour and a reset-code email is
\* scheduled; an email that has no account has no code stored and no reset
\* email scheduled.
C11_ResetRequestUniform ==
    /\ last.op = "request_password_reset" =>
          /\ last.res = [status |-> 200, body |-> GenericAcknowledgement, raised |-> ""]
          /\ users = last.before
          /\ SelectUser(last.before, last.arg[1]) # None =>
                /\ codes[last.arg[1]] # None
                /\ codes[last.arg[1]].expires = last.at + ResetTTL
                /\ Decode(codes[last.arg[1]].value) = issued[last.arg[1]].code
                /\ \E t \in ResetTasks(last.arg[1]) :
                      t.username = ResetCodeMessage(issued[last.arg[1]].code)
    /\ \A e \in Emails :
          SelectUser(users, e) = None => (codes[e] = None /\ ResetTasks(e) = {})

\* C11 witness: a request for an email without an account was answered while
\* another account has a code stored.
C11_Witness ==
    /\ last.op = "request_password_reset"
    /\ SelectUser(last.before, last.arg[1]) = None
    /\ \E e \in Emails : codes[e] # None

ResetSucceeded == [status |-> 200, body |-> [message |-> "Password reset successfully"],
                   raised |-> ""]

\* The last request was a reset_password that presented the code most recently
\* issued for its email, less than an hour after it was issued.
PresentedIssuedCode ==
    /\ last.op = "reset_password"
    /\ issued[last.arg[1]] # None
    /\ last.arg[2] = issued[last.arg[1]].code
    /\ last.at < issued[last.arg[1]].at + ResetTTL

\* C12: a reset code is single-use in sequence.  Of the reset_password calls
\* that present the code issued for an email, the first succeeds and deletes
\* the code, and every later one fails with 400 "Invalid code or email" and
\* changes nothing, until request_password_reset issues a new code.
C12_ResetCodeSingleUse ==
    /\ \A e \in Emails : redeemed[e] <= 1
    /\ \A e \in Emails : redeemed[e] = 1 => codes[e] = None
    /\ PresentedIssuedCode =>
          /\ redeemed[last.arg[1]] = 1
          /\ \/ last.res = ResetSucceeded
             \/ last.res = InvalidResetRequest /\ users = last.before

\* C12 witness: the issued code was redeemed and a later reset_password that
\* presented it again was rejected.
C12_Witness ==
    /\ PresentedIssuedCode
    /\ redeemed[last.arg[1]] = 1
    /\ last.res = InvalidResetRequest

\* C13: single use under interleaving.  Of the reset_password calls that read
\* the same issued code for the same email, in any interleaving, at most one
\* succeeds and changes the password.
C13_AtMostOneRedeems ==
    \A v, w \in Workers :
        (/\ calls[v].status = 200
         /\ calls[w].status = 200
         /\ calls[v].email = calls[w].email
         /\ calls[v].serial = calls[w].serial) => v = w

\* C14: at most one reset code is outstanding per email.  The code stored for
\* an email is always the one most recently issued for it and expires one
\* hour after that issue (a second request overwrites the first code and
\* restarts the hour); reset_password succeeds only with that newest code, and
\* an earlier code is rejected.
C14_OneOutstandingCode ==
    /\ \A e \in Emails :
          codes[e] # None =>
             /\ issued[e] # None
             /\ Decode(codes[e].value) = issued[e].code
             /\ codes[e].expires = issued[e].at + ResetTTL
    /\ (last.op = "reset_password" /\ last.res = ResetSucceeded) => PresentedIssuedCode
    /\ (last.op = "reset_password" /\ issued[last.arg[1]] # None
           /\ last.arg[2] # issued[last.arg[1]].code) => last.res = InvalidResetRequest

\* C14 witness: two codes were issued for an email, the second differing from
\* the first, and a reset_password that presented the first was rejected while
\* the second is still stored.
C14_Witness ==
    /\ last.op = "reset_password"
    /\ issued[last.arg[1]] # None
    /\ issued[last.arg[1]].n = 2
    /\ last.arg[2] # issued[last.arg[1]].code
    /\ \E t \in ResetTasks(last.arg[1]) : t.username = ResetCodeMessage(last.arg[2])
    /\ codes[last.arg[1]] # None
    /\ last.res = InvalidResetRequest

\* A code was issued for the email less than an hour before time t and has not
\* been redeemed, it equals the submitted code, and the email has an account.
ResetShouldSucceed(email, reset_code, t) ==
    /\ issued[email] # None
    /\ redeemed[email] = 0
    /\ t < issued[email].at + ResetTTL
    /\ reset_code = issued[email].code
    /\ SelectUser(users, email) # None

\* C15: reset_password(email, code, new_password) succeeds if and only if a
\* code stored for the email less than an hour ago equals the submitted code
\* and the email has an account; then the account's password becomes the new
\* one and the code is gone.  In every other case (no code, expired code,
\* mismatch, no account) it answers 400 "Invalid code or email" and leaves
\* the users table and the stored code as they were.
C15_ResetSucceedsIff ==
    [][(last' # last /\ last'.op = "reset_password") =>
          IF ResetShouldSucceed(last'.arg[1], last'.arg[2], now)
          THEN /\ last'.res = ResetSucceeded
               /\ verify_password(last'.arg[3], SelectUser(users', last'.arg[1]).password)
               /\ codes'[last'.arg[1]] = None
          ELSE /\ last'.res = InvalidResetRequest
               /\ users' = users
               /\ codes' = codes]_vars

\* C15 witness: the issued code, never redeemed, was presented an hour or more
\* after its issue and was rejected; the stored entry is still there.
C15_Witness ==
    /\ last.op = "reset_password"
    /\ issued[last.arg[1]] # None
    /\ last.arg[2] = issued[last.arg[1]].code
    /\ redeemed[last.arg[1]] = 0
    /\ last.at >= issued[last.arg[1]].at + ResetTTL
    /\ codes[last.arg[1]] # None
    /\ last.res = InvalidResetRequest

\* C16: once a reset_password with the right code has succeeded for an account
\* whose email confirmation was requested with a valid token, login with any
\* password but the new one fails with 401 "Invalid credentials" and login
\* with the new password succeeds and returns a token pair.
C16_LoginAfterReset ==
    (/\ last.op = "login"
     /\ redeemed[last.arg[1]] = 1
     /\ last.arg[1] \in confirmAsked
     /\ LoginUser # None) =>
        IF verify_password(last.arg[2], LoginUser.password)
        THEN last.res.status = 200
        ELSE last.res = InvalidCredentials

VerificationError ==
    [status |-> 400, body |-> [detail |-> "Verification error"], raised |-> "HTTPException"]

Confirmed(u) == HasAttr(u, "confirmed") /\ u.confirmed = TRUE

\* C17: confirmed_email is idempotent.  Called with a valid email-verification
\* token of an existing user it answers 200; the first call sets the user's
\* confirmed flag, every later call answers "Your email is already confirmed"
\* and changes nothing, and the flag of a user once confirmed stays set.
\* Called with a valid token whose subject has no user it answers 400
\* "Verification error" and creates nothing.
C17_ConfirmIdempotent ==
    /\ \A e \in confirmAsked : Confirmed(SelectUser(users, e))
    /\ (last.op = "confirmed_email" /\ IsEmailToken(last.arg) /\ ValidAt(last.arg, last.at)) =>
          IF TokenUser = None
          THEN last.res = VerificationError /\ users = last.before
          ELSE /\ last.res.status = 200
               /\ Confirmed(TokenUser) =>
                     /\ last.res.body = [message |-> "Your email is already confirmed"]
                     /\ users = last.before

Unauthenticated ==
    [status |-> 401, body |-> [detail |-> "Could not validate credentials"],
     raised |-> "HTTPException"]

\* What the guard did with the token of the last read_users_me: an unverifiable
\* token is refused; on a cache hit the cached snapshot is the answer; on a
\* miss the row read from the users table is the answer and is cached for an
\* hour; a subject in neither is refused and gets no cache entry.
GuardResolvesInOrder ==
    last.op = "read_users_me" =>
        IF ~ValidAt(last.arg, last.at) THEN last.res = Unauthenticated
        ELSE IF seen # None
        THEN last.res.status = 200 /\ last.res.body = PickleLoads(seen)
        ELSE IF TokenUser # None
        THEN /\ last.res.status = 200
             /\ last.res.body = TokenUser
             /\ cache[last.arg[1].sub] =
                   [value |-> PickleDumps(TokenUser), expires |-> last.at + CacheTTL]
        ELSE /\ last.res = Unauthenticated
             /\ RedisGet(cache, last.arg[1].sub, last.at) = None

\* C18: get_current_user resolves the token's subject in order (unverifiable
\* token: 401; cache hit: the cached snapshot, no read of the table; miss: the
\* row of the table, cached for an hour; in neither: 401 and no cache entry),
\* and after signup, confirmed_email and login the access token that login
\* returned resolves to the user that signed up.
C18_GuardResolves ==
    /\ GuardResolvesInOrder
    /\ (LoginCredentialsGood /\ last.arg[1] \in confirmAsked) =>
          /\ last.res.status = 200
          /\ get_current_user(last.res.body.access_token, users, cache, now).result
                = Return(SelectUser(users, last.arg[1]))

\* The bearer token of the last request to a protected route, and its subject.
GuardOps == {"read_users_me", "upload_avatar"}
GuardToken == IF last.op = "upload_avatar" THEN last.arg[1] ELSE last.arg
GuardEmail == GuardToken[1].sub

\* C19: a cache entry never outlives its hour.  Every snapshot that
\* get_current_user takes from the cache is the row it read from the users
\* table less than 3600 seconds before the request, and an entry expires one
\* hour after that read (a hit does not extend it); so a change of the table
\* made an hour or more ago is never hidden by the cache.
C19_CacheWithinTTL ==
    /\ (last.op \in GuardOps /\ seen # None) =>
          /\ loaded[GuardEmail] # None
          /\ PickleLoads(seen) = loaded[GuardEmail].row
          /\ last.at - loaded[GuardEmail].at < CacheTTL
    /\ \A e \in Emails :
          cache[e] # None =>
             /\ loaded[e] # None
             /\ cache[e] = [value |-> PickleDumps(loaded[e].row),
                            expires |-> loaded[e].at + CacheTTL]

\* C19 witness: read_users_me was answered from the cache half an hour after
\* the row was read, with a snapshot that is no longer the row of the table.
C19_Witness ==
    /\ last.op = "read_users_me"
    /\ seen # None
    /\ last.res.status = 200
    /\ last.at - loaded[GuardEmail].at = ElapseStep
    /\ last.res.body # SelectUser(users, GuardEmail)

\* The email of the account a request changes.
MutatingOps == {"login", "refresh_token", "confirmed_email", "reset_password", "upload_avatar"}

MutatedEmail ==
    CASE last.op = "login" -> last.arg[1]
      [] last.op = "reset_password" -> last.arg[1]
      [] last.op = "upload_avatar" -> last.arg[1][1].sub
      [] OTHER -> last.arg[1].sub

\* C20: when a request that changes a user's row (login, refresh,
\* confirmed_email, reset_password, upload_avatar) has returned successfully,
\* the cache entry for that user's email is absent or equal to the row now in
\* the users table.
C20_CacheCoherentAfterMutation ==
    (last.op \in MutatingOps /\ last.res.status = 200) =>
        \/ RedisGet(cache, MutatedEmail, now) = None
        \/ PickleLoads(RedisGet(cache, MutatedEmail, now)) = SelectUser(users, MutatedEmail)

\* C21: the cache is not needed for a right answer.  get_current_user called
\* with a valid access token of an existing user returns that user whether
\* the cache holds an entry, holds none, or cannot be reached.
C21_GuardWithoutCache ==
    (/\ last.op = "read_users_me"
     /\ ValidAt(last.arg, last.at)
     /\ HasScope(last.arg, "access_token")
     /\ TokenUser # None) =>
        /\ last.res.status = 200
        /\ last.res.body.email = last.arg[1].sub

\* The default lifetime of a token of its kind: access 15 minutes, refresh 7
\* days, email verification 1 day.
DefaultTTL(token) ==
    IF HasScope(token, "access_token") THEN 15 * 60
    ELSE IF HasScope(token, "refresh_token") THEN 7 * 24 * 60 * 60
    ELSE 24 * 60 * 60

InvalidEmailToken ==
    [status |-> 422, body |-> [detail |-> "Invalid token for email verification"],
     raised |-> "HTTPException"]

\* The last request presented a validly signed token later than its issue
\* time plus the default lifetime of its kind.
PresentedLate == last.at > last.arg[1].iat + DefaultTTL(last.arg)

\* C22: a token presented after its expiry is rejected although its signature
\* is valid.  With the default lifetimes, get_current_user rejects an access
\* token, refresh a refresh token and confirmed_email an email-verification
\* token presented later than issue time plus lifetime, and up to that
\* instant each verifies the token and returns its subject.
C22_ExpiredTokenRejected ==
    /\ (last.op = "read_users_me" /\ HasScope(last.arg, "access_token")
           /\ last.arg[2] = SECRET_KEY) =>
          IF PresentedLate THEN last.res = Unauthenticated
          ELSE TokenUser # None =>
                  (last.res.status = 200 /\ last.res.body.email = last.arg[1].sub)
    /\ (last.op = "refresh_token" /\ HasScope(last.arg, "refresh_token")
           /\ last.arg[2] = SECRET_KEY) =>
          IF PresentedLate THEN last.res = Unauthenticated
          ELSE /\ decode_refresh_token(last.arg, last.at) = Return(last.arg[1].sub)
               /\ last.res # Unauthenticated
    /\ (last.op = "confirmed_email" /\ IsEmailToken(last.arg)) =>
          IF PresentedLate THEN last.res = InvalidEmailToken
          ELSE /\ get_email_from_token(last.arg, last.at) = Return(last.arg[1].sub)
               /\ last.res # InvalidEmailToken

\* C22 witness: a refresh token signed at time 0 was presented one second
\* after its seven days and rejected.
C22_Witness ==
    /\ last.op = "refresh_token"
    /\ HasScope(last.arg, "refresh_token")
    /\ last.arg[2] = SECRET_KEY
    /\ last.at = last.arg[1].iat + DefaultTTL(last.arg) + 1
    /\ last.res = Unauthenticated

ScopeMismatch == Raise("HTTPException", 401, "Invalid scope for token")

\* C23: token round trip.  For every subject, an unexpired token signed for it
\* verifies to exactly that subject with the verifier of its own kind
\* (get_email_from_token for an email-verification token, decode_refresh_token
\* for a refresh token), and the verifier of another kind refuses it
\* (decode_refresh_token with the scope-mismatch error).
C23_TokenRoundTrip ==
    \A token \in SignedTokens(now) :
        Unexpired(token, now) =>
            IF IsEmailToken(token)
            THEN /\ get_email_from_token(token, now) = Return(token[1].sub)
                 /\ decode_refresh_token(token, now) = ScopeMismatch
            ELSE IF HasScope(token, "refresh_token")
            THEN /\ decode_refresh_token(token, now) = Return(token[1].sub)
                 /\ get_email_from_token(token, now).raised # ""
            ELSE /\ decode_refresh_token(token, now) = ScopeMismatch
                 /\ get_email_from_token(token, now).raised # ""

\* The confirmation emails scheduled or delivered.
ConfirmationMails == {t \in tasks \cup mailbox : t.host = BaseUrl}

\* C24: signup schedules the confirmation email only after the new user is
\* committed; a signup that fails (409, or a failed insert) schedules none; a
\* signup that succeeds has scheduled the email for the user it returns; and
\* the run of the email task, delivered or not, changes neither a signup's
\* response nor the users table.
C24_EmailAfterCommit ==
    /\ [](\A t \in ConfirmationMails :
             /\ SelectUser(users, t.email) # None
             /\ SelectUser(users, t.email).user_name = t.username)
    /\ [][/\ \A w \in Workers :
               (signups'[w] # signups[w] /\ signups'[w].pc = "done") =>
                   IF signups'[w].status = 200
                   THEN /\ ConfirmationTask(signups'[w].new_user) \in tasks'
                        /\ signups'[w].new_user \in users
                   ELSE tasks' = tasks
          /\ (tasks' # tasks /\ tasks' \subseteq tasks) =>
                (users' = users /\ signups' = signups /\ last' = last)]_vars

\* C24 witness: a signup was answered with the new user, its confirmation
\* email was attempted and not delivered, and the user is in the table.
C24_Witness ==
    \E w \in Workers :
        /\ signups[w].status = 200
        /\ signups[w].new_user \in users
        /\ ConfirmationTask(signups[w].new_user) \notin tasks \cup mailbox

\* C26: for any interleaving of signup calls with the same email the users
\* table never holds two rows with that email, and every call ends either
\* with the new user or with 409 "Email already registered".
C26_ConcurrentSignup ==
    /\ \A e \in Emails : Cardinality({u \in users : u.email = e}) <= 1
    /\ \A w \in Workers : signups[w].pc = "done" => signups[w].status \in {200, 409}

\* The rows agree in every column but the avatar.
SameButAvatar(u, v) == \A col \in UserColumns \ {"avatar"} : u[col] = v[col]

\* C25: upload_avatar changes at most the avatar of a row of the users table:
\* after the request every row has the id, email, name, password hash and
\* refresh token it had before it, whether the current user came from the
\* table or from a cached snapshot older than a later change of the row.
C25_AvatarOnly ==
    last.op = "upload_avatar" =>
        /\ \A u \in last.before : \E v \in users : SameButAvatar(u, v)
        /\ \A v \in users : \E u \in last.before : SameButAvatar(u, v)

\* C25 witness: an avatar upload succeeded for a current user taken from a
\* cached snapshot whose password hash is not the one in the table any more.
C25_Witness ==
    /\ last.op = "upload_avatar"
    /\ last.res.status = 200
    /\ seen # None
    /\ PickleLoads(seen).password # SelectUser(users, PickleLoads(seen).email).password
    /\ SelectUser(users, PickleLoads(seen).email).avatar = last.res.body.avatar_url

\* A reset_password call has changed the password with the code most recently
\* issued for the email.
NewestRedeemed(e) ==
    \E w \in Workers :
        /\ calls[w].email = e
        /\ calls[w].serial = IssueCount(e)
        /\ calls[w].pc = "delete" \/ (calls[w].pc = "done" /\ calls[w].status = 200)

\* C27: reset_password removes only the code it matched.  The code most
\* recently issued for an email stays stored until a reset_password that read
\* that very code redeems it (no time passes here, so it does not expire),
\* also when it was issued between another call's read of the older code and
\* that call's delete.
C27_DeletesOnlyMatchedCode ==
    \A e \in Emails :
        (issued[e] # None /\ ~NewestRedeemed(e)) =>
            /\ RedisGet(codes, e, now) # None
            /\ Decode(RedisGet(codes, e, now)) = issued[e].code

\* The rows agree in every column but the password hash.
SameButPassword(u, v) == \A col \in UserColumns \ {"password"} : u[col] = v[col]

\* get_current_user resolves the access token to a user.
GuardAccepts(rows, store, token, t) == get_current_user(token, rows, store, t).result.raised = ""

\* The refresh route accepts the token: it verifies and is the one stored.
RefreshAcceptsIn(rows, token, t) ==
    LET e == decode_refresh_token(token, t) IN
    /\ e.raised = ""
    /\ SelectUser(rows, e.value) # None
    /\ SelectUser(rows, e.value).refresh_token = token

RefreshTokens(t) ==
    {refresh_access_token([sub |-> e], i) : e \in Emails, i \in {x \in ElapseTimes : x <= t}}

\* C28: reset_password changes only the password hash of the user's row and
\* the reset code stored for the email: every row keeps its other columns
\* (the stored refresh token among them), the session cache, the scheduled
\* tasks and the other emails' codes stay as they are, and every access token
\* and refresh token accepted before the request is accepted after it.
C28_ResetKeepsSessions ==
    [][(last' # last /\ last'.op = "reset_password") =>
          /\ \A u \in users : \E v \in users' : SameButPassword(u, v)
          /\ \A v \in users' : \E u \in users : SameButPassword(u, v)
          /\ last'.res.status # 200 => (users' = users /\ codes' = codes)
          /\ cache' = cache /\ tasks' = tasks
          /\ \A e \in Emails \ {last'.arg[1]} : codes'[e] = codes[e]
          /\ \A token \in GuardTokens(now) :
                GuardAccepts(users, cache, token, now) => GuardAccepts(users', cache', token, now')
          /\ \A token \in RefreshTokens(now) :
                RefreshAcceptsIn(users, token, now) => RefreshAcceptsIn(users', token, now')]_vars

\* C28 witness: a password was reset, and an access token of that user signed
\* before the reset is resolved to the user.
C28_Witness ==
    /\ last.op = "reset_password"
    /\ last.res.status = 200
    /\ SelectUser(users, last.arg[1]).password # SelectUser(last.before, last.arg[1]).password
    /\ \E token \in GuardTokens(now) :
          /\ token[1].sub = last.arg[1]
          /\ GuardAccepts(last.before, cache, token, now)
          /\ GuardAccepts(users, cache, token, now)

ContactOps == {"create_contact", "read_contact", "update_contact", "delete_contact"}

\* The caller has the role admin or moderator.
Privileged(u) == HasAttr(u, "role") /\ u.role \in {"admin", "moderator"}

\* The contact with the id, or None.
ContactById(rows, id) ==
    IF \E c \in rows : c.id = id THEN CHOOSE c \in rows : c.id = id ELSE None

\* C29: contact ownership.  For every contacts request of an authenticated
\* caller: create_contact stores the contact with the caller as owner; a
\* read, update or delete of an unknown id answers 404; of a contact whose
\* owner is not the caller, the caller being neither admin nor moderator,
\* answers 403; neither changes the contacts table; and a request succeeds
\* only for the owner or a privileged caller.
C29_ContactOwnership ==
    [][(/\ last' # last
        /\ last'.op \in ContactOps
        /\ GuardAccepts(users, cache, last'.arg[1], now)) =>
          LET caller == get_current_user(last'.arg[1], users, cache, now).result.value
              contact == ContactById(contacts, last'.arg[2])
          IN  IF last'.op = "create_contact"
              THEN last'.res.status = 200 =>
                       /\ last'.res.body.user_id = caller.id
                       /\ contacts' = contacts \cup {last'.res.body}
              ELSE IF contact = None
              THEN last'.res.status = 404 /\ contacts' = contacts
              ELSE IF contact.user_id # caller.id /\ ~Privileged(caller)
              THEN last'.res.status = 403 /\ contacts' = contacts
              ELSE TRUE]_vars

====
